---- MODULE Spec2Model ----
(***************************************************************************)
(* Receipt scanning backend (src/main.py): POST /scan, /api/scan, /parse.  *)
(* An upload is read, sent to the OCR service, the OCR text is sent to the *)
(* completion service, and the completion content is decoded as JSON and   *)
(* validated against ParsedItem.                                           *)
(*                                                                         *)
(* Library behaviour assumed (the code uses Field(pattern=...), which is   *)
(* the pydantic v2 API, hence FastAPI >= 0.100 and Starlette >= 0.27):     *)
(*   - UploadFile has no attribute spool_max_size, is always truthy;       *)
(*   - pydantic validates in lax mode (a numeric string is accepted for an *)
(*     int field and converted), ignores extra keys, and the pattern is    *)
(*     matched against the whole string;                                   *)
(*   - an exception that is not an HTTPException answers HTTP 500;         *)
(*   - handlers declared async def run on the event loop; a handler that   *)
(*     never awaits runs to its end before another handler starts.         *)
(*                                                                         *)
(* A completion content is modelled as a sequence of tokens: "[", "]",     *)
(* ",", "prose" (text that is no JSON and holds no bracket) and one token  *)
(* per JSON literal without brackets (see JsonValueOf).                    *)
(***************************************************************************)
EXTENDS Integers, Sequences, FiniteSets, TLC

\* Number of request slots (requests the server may hold at once).
NumRequests == 2

\* Longest JSON array the completion service returns in the model.
MaxItems == 2

Requests == 1..NumRequests

Routes == {"/scan", "/api/scan", "/parse"}

\* ------------------------------------------------------------------ JSON

Absent == [k |-> "absent", s |-> "", n |-> 0]

StrVal(x) == [k |-> "str", s |-> x, n |-> 0]

IntVal(x) == [k |-> "int", s |-> "", n |-> x]

\* A decoded JSON object restricted to what ParsedItem reads: the three
\* schema keys, whether other keys are present, and the number of keys.
JsonObject(nm, q, c, ex) ==
    [kind |-> "object", name |-> nm, quantity |-> q, category |-> c,
     extra |-> ex,
     size |-> (IF nm.k = "absent" THEN 0 ELSE 1) + (IF q.k = "absent" THEN 0 ELSE 1)
              + (IF c.k = "absent" THEN 0 ELSE 1) + (IF ex THEN 1 ELSE 0)]

\* A decoded JSON value that is no object; size is the length of a string.
JsonScalar(kd, sz) ==
    [kind |-> kd, name |-> Absent, quantity |-> Absent, category |-> Absent,
     extra |-> FALSE, size |-> sz]

\* Tokens that may stand as elements of the arrays the model generates.
ElemToks == {"Milk", "Towels", "QtyZero", "Produce", "NoName", "EmptyName",
             "Lax", "Extra", "Five"}

\* Every token that is a complete JSON literal.
AtomToks == ElemToks \cup {"EmptyObj", "EmptyStr", "Null", "Key", "Nested"}

\* What json.loads returns for the literal a token stands for.
JsonValueOf(tok) ==
    CASE tok = "Milk"      -> JsonObject(StrVal("Milk"), IntVal(2), StrVal("Food"), FALSE)
      [] tok = "Towels"    -> JsonObject(StrVal("Paper Towels"), IntVal(1), StrVal("Household"), FALSE)
      [] tok = "QtyZero"   -> JsonObject(StrVal("Soap"), IntVal(0), StrVal("Household"), FALSE)
      [] tok = "Produce"   -> JsonObject(StrVal("Bananas"), IntVal(3), StrVal("Produce"), FALSE)
      [] tok = "NoName"    -> JsonObject(Absent, IntVal(1), StrVal("Food"), FALSE)
      [] tok = "EmptyName" -> JsonObject(StrVal(""), IntVal(1), StrVal("Food"), FALSE)
      [] tok = "Lax"       -> JsonObject(StrVal("Eggs"), StrVal("12"), StrVal("Food"), FALSE)
      [] tok = "Extra"     -> JsonObject(StrVal("Foil"), IntVal(1), StrVal("Household"), TRUE)
      [] tok = "Five"      -> JsonScalar("number", 0)
      [] tok = "EmptyObj"  -> JsonObject(Absent, Absent, Absent, FALSE)
      [] tok = "EmptyStr"  -> JsonScalar("string", 0)
      [] tok = "Null"      -> JsonScalar("null", 0)
      [] tok = "Key"       -> JsonScalar("string", 1)
      [] OTHER             -> JsonScalar("array", 0)

ParseFail == [ok |-> FALSE, next |-> 0, kind |-> "none", elems |-> <<>>, atom |-> "Null"]

RECURSIVE ParseValue(_, _), ParseElems(_, _, _)

\* The JSON value starting at position i of s (1-based), as the decoder
\* scans it: a literal, or "[" value ("," value)* "]", or "[" "]".
ParseValue(s, i) ==
    IF i > Len(s) THEN ParseFail
    ELSE IF s[i] \in AtomToks
    THEN [ok |-> TRUE, next |-> i + 1, kind |-> JsonValueOf(s[i]).kind,
          elems |-> <<>>, atom |-> s[i]]
    ELSE IF s[i] = "["
    THEN IF i + 1 <= Len(s) /\ s[i + 1] = "]"
         THEN [ok |-> TRUE, next |-> i + 2, kind |-> "array", elems |-> <<>>,
               atom |-> "Nested"]
         ELSE ParseElems(s, i + 1, <<>>)
    ELSE ParseFail

ParseElems(s, i, acc) ==
    LET v == ParseValue(s, i) IN
    IF ~v.ok \/ v.next > Len(s) THEN ParseFail
    ELSE LET acc2 == Append(acc, v.atom) IN
         IF s[v.next] = "," THEN ParseElems(s, v.next + 1, acc2)
         ELSE IF s[v.next] = "]"
         THEN [ok |-> TRUE, next |-> v.next + 1, kind |-> "array",
               elems |-> acc2, atom |-> "Nested"]
         ELSE ParseFail

\* json.loads: the whole text must be one JSON value.
json_loads(s) ==
    LET v == ParseValue(s, 1) IN
    IF v.ok /\ v.next = Len(s) + 1 THEN v ELSE ParseFail

RECURSIVE FindFrom(_, _, _)

FindFrom(s, c, i) ==
    IF i >= Len(s) THEN -1
    ELSE IF s[i + 1] = c THEN i
    ELSE FindFrom(s, c, i + 1)

\* str.find: 0-based index of the first occurrence, -1 when there is none.
find(s, c) == FindFrom(s, c, 0)

RECURSIVE RFindFrom(_, _, _)

RFindFrom(s, c, i) ==
    IF i < 0 THEN -1
    ELSE IF s[i + 1] = c THEN i
    ELSE RFindFrom(s, c, i - 1)

\* str.rfind: 0-based index of the last occurrence, -1 when there is none.
rfind(s, c) == RFindFrom(s, c, Len(s) - 1)

\* content[a : b] for 0 <= a <= b <= len.
Slice(s, a, b) == SubSeq(s, a + 1, b)

FallbackApplies_Never(start, end) == start # -1 /\ end # -1 /\ end < start

\* The fallback is taken when "[" and "]" both occur, in that order.
FallbackApplies(start, end) == start # -1 /\ end # -1 /\ end > start

\* Lines 124-134: raised is "none" (data decoded), "HTTP502", or
\* "JSONDecodeError" (raised by the second json.loads, outside any try).
ExtractJson(content) ==
    LET direct == json_loads(content) IN
    IF direct.ok THEN [raised |-> "none", data |-> direct]
    ELSE LET start == find(content, "[")
             end   == rfind(content, "]")
         IN IF FallbackApplies(start, end)
            THEN LET sub == json_loads(Slice(content, start, end + 1)) IN
                 IF sub.ok THEN [raised |-> "none", data |-> sub]
                 ELSE [raised |-> "JSONDecodeError", data |-> ParseFail]
            ELSE [raised |-> "HTTP502", data |-> ParseFail]

\* ------------------------------------------------------------ ParsedItem

\* int() of the numeric strings the model uses; others are no integers.
StrToInt(s) ==
    CASE s = "12" -> [ok |-> TRUE, n |-> 12]
      [] OTHER   -> [ok |-> FALSE, n |-> 0]

NameOk(v) == v.k = "str"

\* quantity: int, ge=1 (lax mode: an int, or a string holding one).
QuantityValue(v) ==
    CASE v.k = "int" -> [ok |-> TRUE, n |-> v.n]
      [] v.k = "str" -> StrToInt(v.s)
      [] OTHER       -> [ok |-> FALSE, n |-> 0]

QuantityOk(v) == QuantityValue(v).ok /\ QuantityValue(v).n >= 1

CategoryOk_AnyText(v) == v.k = "str"

\* category: pattern ^(Food|Household)$
CategoryOk(v) == v.k = "str" /\ v.s \in {"Food", "Household"}

\* ParsedItem(**item): "TypeError" when item is no mapping,
\* "ValidationError" when a field fails, else "ok" with the model built.
ParsedItem(tok) ==
    LET j == JsonValueOf(tok) IN
    IF j.kind # "object"
    THEN [raised |-> "TypeError", item |-> [name |-> "", quantity |-> 0, category |-> ""]]
    ELSE IF NameOk(j.name) /\ QuantityOk(j.quantity) /\ CategoryOk(j.category)
    THEN [raised |-> "ok",
          item |-> [name |-> j.name.s, quantity |-> QuantityValue(j.quantity).n,
                    category |-> j.category.s]]
    ELSE [raised |-> "ValidationError", item |-> [name |-> "", quantity |-> 0, category |-> ""]]

\* `for item in data`: the elements of a list, the keys of a dict, the
\* characters of a str; any other value is not iterable.
IterItems(data) ==
    CASE data.kind = "array"  -> [ok |-> TRUE, items |-> data.elems]
      [] data.kind = "object" -> [ok |-> TRUE,
                                   items |-> [i \in 1..JsonValueOf(data.atom).size |-> "Key"]]
      [] data.kind = "string" -> [ok |-> TRUE,
                                   items |-> [i \in 1..JsonValueOf(data.atom).size |-> "Key"]]
      [] OTHER                -> [ok |-> FALSE, items |-> <<>>]

NoItems_Dropped(items) == FALSE

\* Line 143: `if not items`
NoItems(items) == items = <<>>

\* Index of the first element whose construction raises, 0 when none does.
FirstRaise(items) ==
    LET bad == {i \in 1..Len(items) : ParsedItem(items[i]).raised # "ok"} IN
    IF bad = {} THEN 0 ELSE CHOOSE i \in bad : \A k \in bad : i <= k

StatusOfRaise(exc) ==
    CASE exc = "ValidationError" -> 422
      [] exc = "HTTP502"         -> 502
      [] OTHER                   -> 500

\* Lines 122-145 after the completion call returned content.
ParseContent(content) ==
    LET ex == ExtractJson(content) IN
    IF ex.raised # "none" THEN [status |-> StatusOfRaise(ex.raised), body |-> <<>>]
    ELSE LET it == IterItems(ex.data) IN
         IF ~it.ok THEN [status |-> 500, body |-> <<>>]
         ELSE LET bad == FirstRaise(it.items) IN
              IF bad # 0
              THEN [status |-> StatusOfRaise(ParsedItem(it.items[bad]).raised),
                    body |-> <<>>]
              ELSE IF NoItems(it.items) THEN [status |-> 204, body |-> <<>>]
              ELSE [status |-> 200,
                    body |-> [i \in 1..Len(it.items) |-> ParsedItem(it.items[i]).item]]

\* --------------------------------------------------------------- inputs

NoUpload == [present |-> FALSE, data |-> <<>>]

EmptyFile == [present |-> TRUE, data |-> <<>>]

ImageFile == [present |-> TRUE, data |-> <<137, 80>>]

\* What a multipart field may hold: nothing (None), or an uploaded file.
Uploads == {NoUpload, EmptyFile, ImageFile}

\* Responses of the OCR service: resp.error.message set, or a response with
\* a full_text_annotation.
OcrResponses == {"error", "text"}

RECURSIVE JoinComma(_)

JoinComma(arr) ==
    IF Len(arr) = 0 THEN <<>>
    ELSE IF Len(arr) = 1 THEN <<arr[1]>>
    ELSE <<arr[1], ",">> \o JoinComma(Tail(arr))

\* The JSON text of an array of literals.
RenderArray(arr) == <<"[">> \o JoinComma(arr) \o <<"]">>

Arrays == UNION {[1..n -> ElemToks] : n \in 0..MaxItems}

\* Contents that are no array, or no JSON at all.
OddContents ==
    { <<>>, <<"prose">>, <<"[">>, <<"]", "prose", "[">>,
      <<"prose", "[", "prose", "]">>,
      <<"[", "Milk", "]", "prose", "[", "Towels", "]">>,
      <<"[", "Milk", ",", "]">>,
      <<"[", "[", "Milk", "]", "]">>,
      <<"prose", "[", "Milk", "]">>,
      <<"Milk">>, <<"Five">>, <<"Null">>, <<"EmptyObj">>, <<"EmptyStr">> }

\* Message contents the completion service may return.
Contents ==
    {RenderArray(a) : a \in Arrays}
    \cup {<<"prose">> \o RenderArray(a) \o <<"prose">> : a \in Arrays}
    \cup OddContents

\* Outcomes of client.chat.completions.create: it raises, it returns no
\* choice, a message whose content is None, or a message with content.
CompletionResponses(contents) ==
    {[kind |-> "raise", content |-> <<>>],
     [kind |-> "nochoices", content |-> <<>>],
     [kind |-> "null", content |-> <<>>]}
    \cup {[kind |-> "content", content |-> c] : c \in contents}

\* ---------------------------------------------------------------- state

VARIABLES
    vision_client_handle,  \* _vision_client: 0 is None, else the handle's identity
    openai_client_handle,  \* _openai_client: 0 is None, else the handle's identity
    visionBuilt,           \* ImageAnnotatorClient objects constructed so far
    openaiBuilt,           \* OpenAI objects constructed so far
    OPENAI_API_KEY,        \* os.getenv("OPENAI_API_KEY"), "" when unset
    credentialsOk,         \* whether the ambient OCR credentials are usable
    running,               \* the request whose handler occupies the event loop, 0 if none
    keyErrorSeen,          \* some request has raised "OPENAI_API_KEY is not set."
    prev,                  \* record of the last answered request (kept by the route comparison)
    req                    \* per request slot: position and local variables

vars == <<vision_client_handle, openai_client_handle, visionBuilt, openaiBuilt,
          OPENAI_API_KEY, credentialsOk, running, keyErrorSeen, prev, req>>

NoResponse == [kind |-> "none", content |-> <<>>]

IdleRequest ==
    [pc |-> "idle", route |-> "", image |-> NoUpload, file |-> NoUpload,
     upload |-> NoUpload, contents |-> <<>>,
     preVision |-> 0, preOpenai |-> 0,
     visionUsed |-> 0, openaiUsed |-> 0,
     ocrCalls |-> 0, completionCalls |-> 0,
     ocrResp |-> "none", ocr_text |-> "", compResp |-> NoResponse,
     content |-> <<>>, status |-> 0, body |-> <<>>]

NoPrev == [route |-> "", request |-> IdleRequest, postVision |-> 0, postOpenai |-> 0]

Init ==
    /\ vision_client_handle = 0
    /\ openai_client_handle = 0
    /\ visionBuilt = 0
    /\ openaiBuilt = 0
    /\ OPENAI_API_KEY \in {"", "sk-key"}
    /\ credentialsOk \in BOOLEAN
    /\ running = 0
    /\ keyErrorSeen = FALSE
    /\ prev = NoPrev
    /\ req = [r \in Requests |-> IdleRequest]

EventLoopFree_Threaded(r) == TRUE

\* A handler is a coroutine that never awaits: it starts only when no other
\* handler is on the event loop, and keeps the loop until it returns.
EventLoopFree(r) == running \in {0, r}

\* `image or file`
FirstPresent(image, file) == IF image.present THEN image ELSE file

Fail(q, code) == [q EXCEPT !.pc = "done", !.status = code, !.body = <<>>]

Enter(r, route, image, file, upload) ==
    /\ req[r].pc = "idle"
    /\ EventLoopFree(r)
    /\ running' = r
    /\ req' = [req EXCEPT ![r] =
                 [IdleRequest EXCEPT !.pc = "common", !.route = route,
                                     !.image = image, !.file = file,
                                     !.upload = upload,
                                     !.preVision = vision_client_handle,
                                     !.preOpenai = openai_client_handle]]
    /\ UNCHANGED <<vision_client_handle, openai_client_handle, visionBuilt,
                   openaiBuilt, OPENAI_API_KEY, credentialsOk, keyErrorSeen, prev>>

\* POST /scan
scan(r) ==
    \E image \in Uploads, file \in Uploads :
        Enter(r, "/scan", image, file, FirstPresent(image, file))

scan_api_FileFirst(r) ==
    \E image \in Uploads, file \in Uploads :
        Enter(r, "/api/scan", image, file, FirstPresent(file, image))

\* POST /api/scan
scan_api(r) ==
    \E image \in Uploads, file \in Uploads :
        Enter(r, "/api/scan", image, file, FirstPresent(image, file))

\* POST /parse
parse_alias(r) ==
    \E image \in Uploads, file \in Uploads :
        Enter(r, "/parse", image, file, FirstPresent(image, file))

\* upload.file.read(): the bytes from the file position to the end.
FileRead(data, pos) == SubSeq(data, pos + 1, Len(data))

IsEmptyBytes_Unchecked(contents) == FALSE

\* `contents == b""`
IsEmptyBytes(contents) == contents = <<>>

\* Lines 156-161: read; when nothing came, the spool_max_size attribute is
\* looked up (absent, so None, so b"") and the file is read once more from
\* where the first read left it.
ReadContents(upload) ==
    LET first  == FileRead(upload.data, 0)
        pos    == Len(upload.data)
        second == IF IsEmptyBytes(first) THEN <<>> ELSE first
    IN IF IsEmptyBytes(second) THEN FileRead(upload.data, pos) ELSE second

\* _common_scan_logic up to the OCR call (lines 151-163).
ReadUpload(r) ==
    /\ req[r].pc = "common"
    /\ EventLoopFree(r)
    /\ req' = [req EXCEPT ![r] =
                 IF ~req[r].upload.present THEN Fail(@, 400)
                 ELSE LET contents == ReadContents(req[r].upload) IN
                      IF IsEmptyBytes(contents) THEN Fail(@, 400)
                      ELSE [@ EXCEPT !.pc = "vision_check", !.contents = contents]]
    /\ UNCHANGED <<vision_client_handle, openai_client_handle, visionBuilt,
                   openaiBuilt, OPENAI_API_KEY, credentialsOk, running,
                   keyErrorSeen, prev>>

\* vision_client(), line 42: `if _vision_client is None`, else line 45.
VisionCheck(r) ==
    /\ req[r].pc = "vision_check"
    /\ EventLoopFree(r)
    /\ req' = [req EXCEPT ![r] =
                 IF vision_client_handle = 0
                 THEN [@ EXCEPT !.pc = "vision_new"]
                 ELSE [@ EXCEPT !.pc = "ocr_call", !.visionUsed = vision_client_handle]]
    /\ UNCHANGED <<vision_client_handle, openai_client_handle, visionBuilt,
                   openaiBuilt, OPENAI_API_KEY, credentialsOk, running,
                   keyErrorSeen, prev>>

\* vision_client(), lines 44-45: construct, assign the global, return it.
\* The constructor raises when the credentials are not usable.
VisionConstruct(r) ==
    /\ req[r].pc = "vision_new"
    /\ EventLoopFree(r)
    /\ IF credentialsOk
       THEN /\ visionBuilt' = visionBuilt + 1
            /\ vision_client_handle' = visionBuilt + 1
            /\ req' = [req EXCEPT ![r].pc = "ocr_call",
                                  ![r].visionUsed = visionBuilt + 1]
       ELSE /\ req' = [req EXCEPT ![r] = Fail(@, 500)]
            /\ UNCHANGED <<visionBuilt, vision_client_handle>>
    /\ UNCHANGED <<openai_client_handle, openaiBuilt, OPENAI_API_KEY,
                   credentialsOk, running, keyErrorSeen, prev>>

OcrFailed_Ignored(resp) == FALSE

\* Line 81: `if resp.error.message`
OcrFailed(resp) == resp = "error"

\* Line 83
OcrText(resp) == IF resp = "text" THEN "Milk x2\nPaper Towels\n" ELSE ""

\* ocr_image_bytes, lines 76-83: one annotate_image call.
OcrCall(r) ==
    /\ req[r].pc = "ocr_call"
    /\ EventLoopFree(r)
    /\ \E resp \in OcrResponses :
         req' = [req EXCEPT ![r] =
                   LET q == [@ EXCEPT !.ocrCalls = @ + 1, !.ocrResp = resp] IN
                   IF OcrFailed(resp) THEN Fail(q, 500)
                   ELSE [q EXCEPT !.pc = "openai_check", !.ocr_text = OcrText(resp)]]
    /\ UNCHANGED <<vision_client_handle, openai_client_handle, visionBuilt,
                   openaiBuilt, OPENAI_API_KEY, credentialsOk, running,
                   keyErrorSeen, prev>>

\* openai_client(), line 49: `if _openai_client is None`, else line 54.
OpenaiCheck(r) ==
    /\ req[r].pc = "openai_check"
    /\ EventLoopFree(r)
    /\ req' = [req EXCEPT ![r] =
                 IF openai_client_handle = 0
                 THEN [@ EXCEPT !.pc = "openai_new"]
                 ELSE [@ EXCEPT !.pc = "completion_call", !.openaiUsed = openai_client_handle]]
    /\ UNCHANGED <<vision_client_handle, openai_client_handle, visionBuilt,
                   openaiBuilt, OPENAI_API_KEY, credentialsOk, running,
                   keyErrorSeen, prev>>

KeyMissing_Unchecked(api_key) == FALSE

\* Line 51: `if not api_key`
KeyMissing(api_key) == api_key = ""

\* openai_client(), lines 50-54: read the key, raise without one, else
\* construct, assign the global, return it.
OpenaiConstruct(r) ==
    /\ req[r].pc = "openai_new"
    /\ EventLoopFree(r)
    /\ IF KeyMissing(OPENAI_API_KEY)
       THEN /\ req' = [req EXCEPT ![r] = Fail(@, 500)]
            /\ keyErrorSeen' = TRUE
            /\ UNCHANGED <<openaiBuilt, openai_client_handle>>
       ELSE /\ openaiBuilt' = openaiBuilt + 1
            /\ openai_client_handle' = openaiBuilt + 1
            /\ req' = [req EXCEPT ![r].pc = "completion_call",
                                  ![r].openaiUsed = openaiBuilt + 1]
            /\ UNCHANGED keyErrorSeen
    /\ UNCHANGED <<vision_client_handle, visionBuilt, OPENAI_API_KEY,
                   credentialsOk, running, prev>>

\* Line 122: resp.choices[0].message.content if resp.choices else "[]"
ContentOf(resp) == IF resp.kind = "nochoices" THEN <<"[", "]">> ELSE resp.content

\* parse_items_with_openai, lines 113-145: one completion call, then the
\* content is decoded and validated. json.loads(None) raises TypeError.
Complete(r, contents) ==
    /\ req[r].pc = "completion_call"
    /\ EventLoopFree(r)
    /\ \E resp \in CompletionResponses(contents) :
         req' = [req EXCEPT ![r] =
                   LET q == [@ EXCEPT !.completionCalls = @ + 1, !.compResp = resp] IN
                   IF resp.kind = "raise" \/ resp.kind = "null" THEN Fail(q, 500)
                   ELSE LET content == ContentOf(resp)
                            out == ParseContent(content)
                        IN [q EXCEPT !.pc = "done", !.content = content,
                                     !.status = out.status, !.body = out.body]]
    /\ UNCHANGED <<vision_client_handle, openai_client_handle, visionBuilt,
                   openaiBuilt, OPENAI_API_KEY, credentialsOk, running,
                   keyErrorSeen, prev>>

CompletionCall(r) == Complete(r, Contents)

\* The handler returns: the response is sent and the event loop is free.
Finish(r, keep) ==
    /\ req[r].pc = "done"
    /\ EventLoopFree(r)
    /\ running' = 0
    /\ prev' = IF keep
               THEN [route |-> req[r].route,
                     request |-> [req[r] EXCEPT !.route = ""],
                     postVision |-> vision_client_handle,
                     postOpenai |-> openai_client_handle]
               ELSE prev
    /\ req' = [req EXCEPT ![r] = IdleRequest]
    /\ UNCHANGED <<vision_client_handle, openai_client_handle, visionBuilt,
                   openaiBuilt, OPENAI_API_KEY, credentialsOk, keyErrorSeen>>

Respond(r) == Finish(r, FALSE)

\* The operator corrects the environment: the API key becomes set.
SetApiKey ==
    /\ OPENAI_API_KEY = ""
    /\ OPENAI_API_KEY' = "sk-key"
    /\ UNCHANGED <<vision_client_handle, openai_client_handle, visionBuilt,
                   openaiBuilt, credentialsOk, running, keyErrorSeen, prev, req>>

\* The operator corrects the environment: the OCR credentials become usable.
SetCredentials ==
    /\ ~credentialsOk
    /\ credentialsOk' = TRUE
    /\ UNCHANGED <<vision_client_handle, openai_client_handle, visionBuilt,
                   openaiBuilt, OPENAI_API_KEY, running, keyErrorSeen, prev, req>>

Next ==
    \/ \E r \in Requests : scan(r)
    \/ \E r \in Requests : scan_api(r)
    \/ \E r \in Requests : parse_alias(r)
    \/ \E r \in Requests : ReadUpload(r)
    \/ \E r \in Requests : VisionCheck(r)
    \/ \E r \in Requests : VisionConstruct(r)
    \/ \E r \in Requests : OcrCall(r)
    \/ \E r \in Requests : OpenaiCheck(r)
    \/ \E r \in Requests : OpenaiConstruct(r)
    \/ \E r \in Requests : CompletionCall(r)
    \/ \E r \in Requests : Respond(r)
    \/ SetApiKey
    \/ SetCredentials

Spec == Init /\ [][Next]_vars

\* -------------------------------------------- route comparison (C7)

\* Contents used when routes are compared: a direct array, a prose-wrapped
\* array, an empty array, an array with an invalid element, no JSON.
RouteContents ==
    { <<"[", "Milk", ",", "Towels", "]">>, <<"prose", "[", "Milk", "]", "prose">>,
      <<"[", "]">>, <<"[", "QtyZero", "]">>, <<"prose">> }

CompletionCallCompared(r) == Complete(r, RouteContents)

\* As Respond, and the answered request is remembered for comparison.
RespondCompared(r) == Finish(r, TRUE)

NextRoutes ==
    \/ \E r \in Requests : scan(r)
    \/ \E r \in Requests : scan_api(r)
    \/ \E r \in Requests : parse_alias(r)
    \/ \E r \in Requests : ReadUpload(r)
    \/ \E r \in Requests : VisionCheck(r)
    \/ \E r \in Requests : VisionConstruct(r)
    \/ \E r \in Requests : OcrCall(r)
    \/ \E r \in Requests : OpenaiCheck(r)
    \/ \E r \in Requests : OpenaiConstruct(r)
    \/ \E r \in Requests : CompletionCallCompared(r)
    \/ \E r \in Requests : RespondCompared(r)

\* The environment is fixed for the life of the process; every answered
\* request is remembered and compared with the next one.
SpecRoutes == Init /\ [][NextRoutes]_vars

\* --------------------------------------------------------------- claims

Done(r) == req[r].pc = "done"

\* The upload the claims call "selected": `image` when supplied, else `file`.
Selected(q) == IF q.image.present THEN q.image ELSE q.file

\* C1: a request with no file under either field, or whose selected upload
\* holds zero bytes, never calls the OCR service nor the completion service,
\* and ends with HTTP 400.
C1_EmptyUploadIs400 ==
    \A r \in Requests :
        LET q == req[r] IN
        (q.pc # "idle" /\ (~Selected(q).present \/ Selected(q).data = <<>>)) =>
            /\ q.ocrCalls = 0
            /\ q.completionCalls = 0
            /\ q.pc \in {"common", "done"}
            /\ (q.pc = "done" => q.status = 400 /\ q.body = <<>>)

\* An empty file was uploaded (here under `image`, with a non-empty `file`
\* beside it) and the request was answered 400.
C1_Witness ==
    \E r \in Requests :
        /\ Done(r) /\ req[r].status = 400
        /\ req[r].image = EmptyFile /\ req[r].file = ImageFile

\* The content decodes, as a whole, to a JSON array.
DirectArray(c) == json_loads(c).ok /\ json_loads(c).kind = "array"

\* The text from the first "[" to the last "]" exists and decodes to an array.
BracketArray(c) ==
    LET opens  == {i \in 1..Len(c) : c[i] = "["}
        closes == {i \in 1..Len(c) : c[i] = "]"}
    IN /\ opens # {} /\ closes # {}
       /\ LET a == CHOOSE i \in opens : \A k \in opens : i <= k
              b == CHOOSE i \in closes : \A k \in closes : i >= k
          IN a < b /\ json_loads(SubSeq(c, a, b)).ok

\* The request received a message content from the completion service.
GotContent(r) ==
    /\ Done(r) /\ req[r].completionCalls = 1
    /\ req[r].compResp.kind \in {"content", "nochoices"}

\* C2: when neither direct decoding nor decoding of the text between the
\* first "[" and the last "]" gives a JSON array, the request fails with 502.
C2_NoArrayIs502 ==
    \A r \in Requests :
        (GotContent(r) /\ ~DirectArray(req[r].content) /\ ~BracketArray(req[r].content))
            => req[r].status = 502

\* The part of C2 the code keeps: no JSON value and no bracket pair gives 502.
C2_NoBracketsIs502 ==
    \A r \in Requests :
        (GotContent(r) /\ ~json_loads(req[r].content).ok
           /\ ~(\E i, k \in 1..Len(req[r].content) :
                  i < k /\ req[r].content[i] = "[" /\ req[r].content[k] = "]"))
            => req[r].status = 502

\* The decoded array of a content, when one of the two methods gives one.
DecodedArray(c) ==
    IF DirectArray(c) THEN json_loads(c).elems
    ELSE json_loads(Slice(c, find(c, "["), rfind(c, "]") + 1)).elems

HasArray(c) == DirectArray(c) \/ (~json_loads(c).ok /\ BracketArray(c))

\* The ways C3 names for an element to fail the schema.
FailsSchema(tok) ==
    LET j == JsonValueOf(tok) IN
    \/ j.kind # "object"
    \/ j.name.k = "absent"
    \/ (j.quantity.k = "int" /\ j.quantity.n < 1)
    \/ ~(j.category.k = "str" /\ j.category.s \in {"Food", "Household"})

\* C3: a decoded array with an element that fails the schema (an element
\* that is no object included) gives 422 and no item list.
C3_InvalidElementIs422 ==
    \A r \in Requests :
        (GotContent(r) /\ HasArray(req[r].content)
           /\ \E i \in 1..Len(DecodedArray(req[r].content)) :
                 FailsSchema(DecodedArray(req[r].content)[i]))
            => req[r].status = 422 /\ req[r].body = <<>>

\* The part of C3 the code keeps: when every element is an object, one
\* failing element gives 422; in every case no item list is returned.
C3_InvalidObjectIs422 ==
    \A r \in Requests :
        (GotContent(r) /\ HasArray(req[r].content)
           /\ \E i \in 1..Len(DecodedArray(req[r].content)) :
                 FailsSchema(DecodedArray(req[r].content)[i]))
            => /\ req[r].status # 200 /\ req[r].body = <<>>
               /\ (\A i \in 1..Len(DecodedArray(req[r].content)) :
                      JsonValueOf(DecodedArray(req[r].content)[i]).kind = "object")
                   => req[r].status = 422

\* C4 as stated: every item of a 200 response has a non-empty name, a
\* quantity >= 1 and category "Food" or "Household".
C4_ItemsValidNonEmptyName ==
    \A r \in Requests :
        (Done(r) /\ req[r].status = 200) =>
            \A i \in 1..Len(req[r].body) :
                /\ req[r].body[i].name # ""
                /\ req[r].body[i].quantity \in Nat /\ req[r].body[i].quantity >= 1
                /\ req[r].body[i].category \in {"Food", "Household"}

\* C4 amended: every item of a 200 response has a name that is the text of
\* some element's name key (possibly empty), an integer quantity >= 1 and
\* category "Food" or "Household".
C4_ItemsValid ==
    \A r \in Requests :
        (Done(r) /\ req[r].status = 200) =>
            \A i \in 1..Len(req[r].body) :
                /\ \E t \in AtomToks : JsonValueOf(t).name = StrVal(req[r].body[i].name)
                /\ req[r].body[i].quantity \in Nat /\ req[r].body[i].quantity >= 1
                /\ req[r].body[i].category \in {"Food", "Household"}

\* A 200 response holding an item whose name is the empty text.
C4_Witness ==
    \E r \in Requests :
        /\ Done(r) /\ req[r].status = 200
        /\ \E i \in 1..Len(req[r].body) : req[r].body[i].name = ""

\* C5: a response without choices, or a content that decodes to an empty
\* array, gives 204; no 200 response has an empty list.
C5_EmptyArrayIs204 ==
    \A r \in Requests :
        /\ (Done(r) /\ req[r].completionCalls = 1
              /\ \/ req[r].compResp.kind = "nochoices"
                 \/ /\ req[r].compResp.kind = "content"
                    /\ req[r].compResp.content
                         \in {<<"[", "]">>, <<"prose", "[", "]", "prose">>})
            => req[r].status = 204 /\ req[r].body = <<>>
        /\ (Done(r) /\ req[r].status = 200) => req[r].body # <<>>

\* The completion service answered "[]" inside prose and the request ended 204.
C5_Witness ==
    \E r \in Requests :
        /\ Done(r) /\ req[r].status = 204
        /\ req[r].compResp.content = <<"prose", "[", "]", "prose">>

IsElemTok(t) == t \in ElemToks

\* The element literals of a content, in the order they are written.
Written(c) == SelectSeq(c, IsElemTok)

\* The content is the JSON text of arr, bare or wrapped in prose.
Carries(c, arr) ==
    c \in {RenderArray(arr), <<"prose">> \o RenderArray(arr) \o <<"prose">>,
           <<"prose">> \o RenderArray(arr), RenderArray(arr) \o <<"prose">>}

\* An object with a text name, an integer quantity >= 1 and a category of
\* the two allowed: valid under the schema as the specification words it.
StrictlyValid(tok) ==
    LET j == JsonValueOf(tok) IN
    /\ j.kind = "object" /\ j.name.k = "str"
    /\ j.quantity.k = "int" /\ j.quantity.n >= 1
    /\ j.category.k = "str" /\ j.category.s \in {"Food", "Household"}

\* The same, with the integer also allowed as a numeric string ("12").
LaxlyValid(tok) ==
    LET j == JsonValueOf(tok) IN
    /\ j.kind = "object" /\ j.name.k = "str"
    /\ \/ j.quantity.k = "int" /\ j.quantity.n >= 1
       \/ j.quantity.k = "str" /\ j.quantity.s = "12"
    /\ j.category.k = "str" /\ j.category.s \in {"Food", "Household"}

\* A ParsedItem read back as a JSON object.
ItemAsJson(item) ==
    JsonObject(StrVal(item.name), IntVal(item.quantity), StrVal(item.category), FALSE)

\* C6 as stated: a non-empty array of schema-valid objects, bare or wrapped
\* in prose, gives 200 and a list with the same elements in the same order.
C6_SameElements ==
    \A r \in Requests :
        LET arr == Written(req[r].content) IN
        (GotContent(r) /\ arr # <<>> /\ Carries(req[r].content, arr)
           /\ \A i \in 1..Len(arr) : StrictlyValid(arr[i]))
            => /\ req[r].status = 200
               /\ Len(req[r].body) = Len(arr)
               /\ \A i \in 1..Len(arr) : ItemAsJson(req[r].body[i]) = JsonValueOf(arr[i])

\* C6 amended: such an array (a numeric string as quantity allowed) gives
\* 200 and a list of the same length whose i-th item has the i-th element's
\* name and category and its quantity as an integer; other keys are dropped.
C6_SameItemsInOrder ==
    \A r \in Requests :
        LET arr == Written(req[r].content) IN
        (GotContent(r) /\ arr # <<>> /\ Carries(req[r].content, arr)
           /\ \A i \in 1..Len(arr) : LaxlyValid(arr[i]))
            => /\ req[r].status = 200
               /\ Len(req[r].body) = Len(arr)
               /\ \A i \in 1..Len(arr) :
                    LET j == JsonValueOf(arr[i]) IN
                    /\ req[r].body[i].name = j.name.s
                    /\ req[r].body[i].category = j.category.s
                    /\ req[r].body[i].quantity =
                         (IF j.quantity.k = "int" THEN j.quantity.n ELSE 12)

\* A prose-wrapped array of two different valid elements, one of them with
\* an extra key, was answered 200.
C6_Witness ==
    \E r \in Requests :
        /\ Done(r) /\ req[r].status = 200
        /\ req[r].content = <<"prose", "[", "Extra", ",", "Milk", "]", "prose">>

\* C7: two requests with the same uploads under `image` and `file`, the
\* same responses of the two services and the same handles at entry end
\* with the same status and body and leave the same handles, whatever
\* their routes.
C7_RoutesEquivalent ==
    \A r \in Requests :
        (/\ Done(r) /\ prev # NoPrev
         /\ req[r].image = prev.request.image /\ req[r].file = prev.request.file
         /\ req[r].ocrResp = prev.request.ocrResp
         /\ req[r].compResp = prev.request.compResp
         /\ req[r].preVision = prev.request.preVision
         /\ req[r].preOpenai = prev.request.preOpenai)
            => /\ req[r].status = prev.request.status
               /\ req[r].body = prev.request.body
               /\ vision_client_handle = prev.postVision
               /\ openai_client_handle = prev.postOpenai

\* Both fields were supplied with different files, to two different
\* routes, with the same responses and handles, and both were answered 200.
C7_Witness ==
    \E r \in Requests :
        /\ Done(r) /\ prev # NoPrev /\ prev.route # req[r].route
        /\ req[r].route = "/api/scan" /\ req[r].status = 200
        /\ req[r].image = ImageFile /\ req[r].file = EmptyFile
        /\ req[r].image = prev.request.image /\ req[r].file = prev.request.file
        /\ req[r].ocrResp = prev.request.ocrResp
        /\ req[r].compResp = prev.request.compResp
        /\ req[r].preVision = prev.request.preVision
        /\ req[r].preOpenai = prev.request.preOpenai

\* C8: a request makes at most one OCR call and one completion call, the
\* completion call only after its OCR call returned without error, and a
\* failed call ends the request in failure with no further call.
C8_LinearPipeline ==
    \A r \in Requests :
        LET q == req[r] IN
        /\ q.ocrCalls <= 1 /\ q.completionCalls <= 1
        /\ q.completionCalls = 1 => (q.ocrCalls = 1 /\ q.ocrResp = "text")
        /\ q.ocrResp = "error" =>
              (q.pc = "done" /\ q.status = 500 /\ q.completionCalls = 0)
        /\ q.compResp.kind = "raise" => (q.pc = "done" /\ q.status = 500)
        /\ (q.ocrCalls = 0) = (q.ocrResp = "none")
        /\ (q.completionCalls = 0) = (q.compResp.kind = "none")

\* The OCR service reported an error and the request ended without a
\* completion call.
C8_Witness ==
    \E r \in Requests :
        /\ Done(r) /\ req[r].ocrResp = "error" /\ req[r].ocrCalls = 1
        /\ req[r].completionCalls = 0

\* C9: each handle is constructed at most once, is never reset or replaced
\* once constructed, and every request uses the one handle of the process.
C9_HandlesConstructedOnce ==
    /\ visionBuilt <= 1 /\ openaiBuilt <= 1
    /\ vision_client_handle = visionBuilt
    /\ openai_client_handle = openaiBuilt
    /\ \A r \in Requests :
          /\ req[r].visionUsed \in {0, vision_client_handle}
          /\ req[r].openaiUsed \in {0, openai_client_handle}
          /\ req[r].ocrCalls = 1 => req[r].visionUsed = vision_client_handle
          /\ req[r].completionCalls = 1 => req[r].openaiUsed = openai_client_handle

\* A request that found both handles constructed at entry used them for
\* both calls.
C9_Witness ==
    \E r \in Requests :
        /\ Done(r) /\ req[r].preVision # 0 /\ req[r].preOpenai # 0
        /\ req[r].ocrCalls = 1 /\ req[r].completionCalls = 1
        /\ req[r].visionUsed = req[r].preVision
        /\ req[r].openaiUsed = req[r].preOpenai

\* C10: while no API key is set, the completion handle stays unconstructed
\* and every request with a non-empty upload fails without a completion
\* call; with the key set, a request that reaches the completion stage holds
\* a constructed handle.
C10_NoKeyFailsWithoutCaching ==
    \A r \in Requests :
        LET q == req[r] IN
        /\ OPENAI_API_KEY = "" =>
              /\ openai_client_handle = 0
              /\ q.completionCalls = 0 /\ q.pc # "completion_call"
              /\ (q.pc = "done" /\ q.contents # <<>>) =>
                    (q.status = 500 /\ q.openaiUsed = 0)
        /\ (q.pc = "completion_call" \/ q.completionCalls = 1) =>
              (q.openaiUsed # 0 /\ q.openaiUsed = openai_client_handle)

\* After a request failed for the missing key, the key was set and a later
\* request constructed the handle and was answered 200.
C10_Witness ==
    \E r \in Requests :
        /\ keyErrorSeen /\ Done(r) /\ req[r].status = 200
        /\ req[r].preOpenai = 0 /\ req[r].openaiUsed # 0

====
